---- MODULE Spec2Model ----
(***************************************************************************)
(* Batch geocoding of institute names (app.py): split_names, the Census    *)
(* and Nominatim backends, geocode_master's fallback chain and             *)
(* batch_geocode's thread pool with its index-keyed result slots.  The     *)
(* batches are the ones index() builds from pasted text or from the        *)
(* institute column of an uploaded sheet.                                  *)
(*                                                                         *)
(* A name is a sequence of one-character strings.  A coordinate component  *)
(* is an opaque token (a string) or None; a result slot is the empty tuple *)
(* while it still holds its placeholder and a pair <<lat, lng>> afterwards.*)
(***************************************************************************)
EXTENDS Integers, Sequences, FiniteSets, TLC

\* ------------------------------------------------------------------ bounds

\* Largest number of comma-separated fields of a pasted line, and of rows of
\* an uploaded sheet.
MaxFields == 2

\* Largest length of a line given to split_names on its own.
MaxTextLen == 4

\* Largest small pool size tried.
MaxWorkers == 1

\* A pool larger than any batch of the model (index() passes none and gets the
\* default workers=10, which behaves the same for these batches).
ManyWorkers == 8

\* ------------------------------------------------------- program constants

\* geocode_osm: for _ in range(3)
OsmAttempts == 3

\* ------------------------------------------------------------------ values

None == "None"

\* The placeholder of coords = [None]*len(names): not a pair.
Unset == <<>>

\* return None, None
NoCoord == <<None, None>>

IsSpace(ch) == ch = " "

\* ------------------------------------------------------------- split_names

RECURSIVE LStrip(_)
LStrip(s) == IF s # <<>> /\ IsSpace(Head(s)) THEN LStrip(Tail(s)) ELSE s

RECURSIVE RStrip(_)
RStrip(s) ==
    IF s # <<>> /\ IsSpace(s[Len(s)]) THEN RStrip(SubSeq(s, 1, Len(s) - 1)) ELSE s

\* str.strip()
Strip(s) == RStrip(LStrip(s))

IsBlank(s) == Strip(s) = <<>>

\* Faulty variant: depth - 1 without the floor of 0.
MaxFirst(a, b) == a

Max(a, b) == IF a >= b THEN a ELSE b

\* names, buf, depth = [], '', 0
ScanInit == [names |-> <<>>, buf |-> <<>>, depth |-> 0]

\* One iteration of `for ch in text`.
ScanStep(s, ch) ==
    LET d == IF ch = "(" THEN s.depth + 1
             ELSE IF ch = ")" THEN Max(s.depth - 1, 0)
             ELSE s.depth
    IN  IF ch = "," /\ d = 0
        THEN [names |-> Append(s.names, Strip(s.buf)), buf |-> <<>>, depth |-> d]
        ELSE [names |-> s.names, buf |-> Append(s.buf, ch), depth |-> d]

\* The loop state after the first k characters of text.
RECURSIVE Scan(_, _)
Scan(text, k) == IF k = 0 THEN ScanInit ELSE ScanStep(Scan(text, k - 1), text[k])

\* if buf.strip(): names.append(buf.strip()); return names
ScanFinish(s) ==
    IF Strip(s.buf) # <<>> THEN Append(s.names, Strip(s.buf)) ELSE s.names

split_names(text) == ScanFinish(Scan(text, Len(text)))

\* ------------------------------------------------------------------ inputs

\* What one field of a pasted line can be.
Fields == {<<"a">>, <<>>, <<" ">>}

RECURSIVE JoinComma(_)
JoinComma(fs) ==
    IF Len(fs) = 0 THEN <<>>
    ELSE IF Len(fs) = 1 THEN fs[1]
    ELSE fs[1] \o <<",">> \o JoinComma(Tail(fs))

\* The pasted lines: up to MaxFields fields joined by commas.
Texts == {JoinComma(fs) : fs \in UNION {[1..n -> Fields] : n \in 1..MaxFields}}

\* index(), geocode_text: a text that is blank is refused ('No input.'), the
\* others are split and handed to batch_geocode.
TextNames == {split_names(t) : t \in {u \in Texts : ~IsBlank(u)}}

\* What one cell of the institute column can be, as a string.
Cells == {<<"a">>, <<" ">>}

\* index(), geocode_file: the institute column as it is, empty sheet included.
FileNames == UNION {[1..n -> Cells] : n \in 0..MaxFields}

\* The lists index() calls batch_geocode with.
NameLists == TextNames \cup FileNames

\* The characters of a line: a letter, the comma, the parentheses, a blank.
Alphabet == {"a", ",", "(", ")", " "}

\* The lines split_names is run on step by step.
ScanTexts == UNION {[1..n -> Alphabet] : n \in 0..MaxTextLen}

\* The argument workers: -1 and 0 (refused by the pool), small pools, a large
\* pool.
WorkerChoices == (-1..MaxWorkers) \cup {ManyWorkers}

\* f"{name}, USA"
Address(name) == name \o <<",", " ", "U", "S", "A">>

\* --------------------------------------------------------------- responses

CensusLat == "41.88"
CensusLng == "-87.63"
OsmLat == "40.71"
OsmLng == "-74.01"

NoResp == [backend |-> "none", kind |-> "none", lat |-> None, lng |-> None]

\* requests.get(...).json(): addressMatches with a coordinates object that has
\* y and x, only one of them or neither; no addressMatches; a timeout or an
\* unreachable service; any other exception (bad JSON, a missing key).
CensusResponses ==
    {[backend |-> "census", kind |-> "match", lat |-> y, lng |-> x] :
        y \in {CensusLat, None}, x \in {CensusLng, None}}
    \cup {[backend |-> "census", kind |-> k, lat |-> None, lng |-> None] :
        k \in {"nomatch", "transient", "permanent"}}

\* osm.geocode(...): a Location, None, GeocoderTimedOut / GeocoderUnavailable,
\* or any other exception.
OsmResponses ==
    {[backend |-> "osm", kind |-> "match", lat |-> OsmLat, lng |-> OsmLng]}
    \cup {[backend |-> "osm", kind |-> k, lat |-> None, lng |-> None] :
        k \in {"nomatch", "transient", "permanent"}}

\* ------------------------------------------------------------------- state

VARIABLES
    names,      \* the argument names
    workers,    \* the argument workers
    bpc,        \* batch_geocode's position: start, submit, collect, returned, raised
    coords,     \* the result list
    futures,    \* the dict futures, in submission order: future f -> idx, name
    st,         \* per future: new, queued, census, osm, sleep, done
    att,        \* per future: iterations of geocode_osm's loop that are over
    fut,        \* per future: its outcome once done
    collected,  \* the futures as_completed has yielded
    calls,      \* per future: the backends called so far, in order
    onlyNF,     \* per future: every response so far was "no match"
    writes,     \* per result slot: assignments coords[idx] = ...
    last,       \* per future: the last backend response and the address asked
    spc,        \* split_names' position: idle, loop, returned
    text,       \* split_names' argument
    pos,        \* the characters of text the loop has consumed
    scan,       \* split_names' names, buf and depth
    out         \* what split_names returned

batchVars == <<names, workers, bpc, coords, futures, st, att, fut, collected,
               calls, onlyNF, writes, last>>

splitVars == <<spc, text, pos, scan, out>>

vars == <<batchVars, splitVars>>

N == Len(names)

Pending == [state |-> "pending", val |-> Unset]
Value(v) == [state |-> "value", val |-> v]
Raised == [state |-> "exc", val |-> Unset]

Running == {f \in 1..N : st[f] \in {"census", "osm", "sleep"}}

Init ==
    /\ names \in NameLists
    /\ workers \in WorkerChoices
    /\ bpc = "start"
    /\ coords = <<>>
    /\ futures = <<>>
    /\ st = [f \in 1..N |-> "new"]
    /\ att = [f \in 1..N |-> 0]
    /\ fut = [f \in 1..N |-> Pending]
    /\ collected = {}
    /\ calls = [f \in 1..N |-> <<>>]
    /\ onlyNF = [f \in 1..N |-> TRUE]
    /\ writes = [i \in 1..N |-> 0]
    /\ last = [f \in 1..N |-> [resp |-> NoResp, query |-> <<>>]]
    /\ spc = "idle"
    /\ text = <<>>
    /\ pos = 0
    /\ scan = ScanInit
    /\ out = <<>>

\* ----------------------------------------------------------- batch_geocode

\* Faulty variant: the pool size is not checked.
EnterUnchecked ==
    /\ bpc = "start"
    /\ coords' = [i \in 1..N |-> Unset]
    /\ bpc' = IF N = 0 THEN "collect" ELSE "submit"
    /\ UNCHANGED <<names, workers, futures, st, att, fut, collected,
                   calls, onlyNF, writes, last>>

\* coords = [None]*len(names); ThreadPoolExecutor(max_workers=workers), which
\* raises ValueError for max_workers <= 0.
Enter ==
    /\ bpc = "start"
    /\ coords' = [i \in 1..N |-> Unset]
    /\ bpc' = IF workers <= 0 THEN "raised"
              ELSE IF N = 0 THEN "collect" ELSE "submit"
    /\ UNCHANGED <<names, workers, futures, st, att, fut, collected,
                   calls, onlyNF, writes, last>>

\* Faulty variant: the task is bound to the loop variable late and sees the last name.
SubmitEntryLate(k) == [idx |-> k, name |-> names[Len(names)]]

\* The index and the name the next exe.submit(geocode_master, n) is made with.
SubmitEntry(k) == [idx |-> k, name |-> names[k]]

\* futures = {exe.submit(geocode_master, n): i for i, n in enumerate(names)}
Submit ==
    /\ bpc = "submit"
    /\ LET f == Len(futures) + 1
       IN  /\ futures' = Append(futures, SubmitEntry(f))
           /\ st' = [st EXCEPT ![f] = "queued"]
           /\ bpc' = IF f = N THEN "collect" ELSE "submit"
    /\ UNCHANGED <<names, workers, coords, att, fut, collected,
                   calls, onlyNF, writes, last>>

\* Faulty variant: one thread per work item, whatever max_workers is.
CanStartUnbounded(f) ==
    /\ st[f] = "queued"
    /\ \A g \in 1..(f - 1) : st[g] # "queued"

\* A pool thread takes the oldest queued work item; the pool has at most
\* max_workers threads.
CanStart(f) ==
    /\ st[f] = "queued"
    /\ \A g \in 1..(f - 1) : st[g] # "queued"
    /\ Cardinality(Running) < workers

Start(f) ==
    /\ CanStart(f)
    /\ st' = [st EXCEPT ![f] = "census"]
    /\ UNCHANGED <<names, workers, bpc, coords, futures, att, fut, collected,
                   calls, onlyNF, writes, last>>

\* -------------------------------------------------------------- the chain

\* The request a task makes with its name, and the response it gets.
Record(f, r) ==
    /\ calls' = [calls EXCEPT ![f] = Append(@, r.backend)]
    /\ onlyNF' = [onlyNF EXCEPT ![f] = @ /\ r.kind = "nomatch"]
    /\ last' = [last EXCEPT ![f] = [resp |-> r, query |-> Address(futures[f].name)]]

\* geocode_census: what it returns for a response.
geocode_census(r) ==
    IF r.kind = "match" THEN <<r.lat, r.lng>> ELSE NoCoord

\* Faulty variant: the Census result is never taken.
CensusAcceptedNever(c) == FALSE

\* Faulty variant: lat is not None or lng is not None
CensusAcceptedEither(c) == c[1] # None \/ c[2] # None

\* geocode_master: lat is not None and lng is not None
CensusAccepted(c) == c[1] # None /\ c[2] # None

\* Faulty variant: geocode_census asks again after an exception, up to OsmAttempts times.
CensusCallRetry(f, r) ==
    /\ st[f] = "census"
    /\ Record(f, r)
    /\ LET c == geocode_census(r)
       IN  IF CensusAccepted(c)
           THEN /\ st' = [st EXCEPT ![f] = "done"]
                /\ fut' = [fut EXCEPT ![f] = Value(c)]
           ELSE /\ st' = [st EXCEPT ![f] =
                        IF r.kind \in {"transient", "permanent"}
                           /\ Len(calls[f]) + 1 < OsmAttempts
                        THEN "census" ELSE "osm"]
                /\ fut' = fut
    /\ UNCHANGED <<names, workers, bpc, coords, futures, att, collected, writes>>

\* geocode_master up to the call of geocode_osm: one Census request.
CensusCall(f, r) ==
    /\ st[f] = "census"
    /\ Record(f, r)
    /\ LET c == geocode_census(r)
       IN  IF CensusAccepted(c)
           THEN /\ st' = [st EXCEPT ![f] = "done"]
                /\ fut' = [fut EXCEPT ![f] = Value(c)]
           ELSE /\ st' = [st EXCEPT ![f] = "osm"]
                /\ fut' = fut
    /\ UNCHANGED <<names, workers, bpc, coords, futures, att, collected, writes>>

\* Faulty variant: the loop has no attempt counter and goes on while Nominatim
\* has nothing.
OsmNextUnbounded(f) ==
    /\ att' = att
    /\ st' = [st EXCEPT ![f] = "osm"]
    /\ fut' = fut

\* The end of one iteration of geocode_osm's loop: the next one, or
\* return None, None after the last.
OsmNext(f) ==
    /\ att' = [att EXCEPT ![f] = @ + 1]
    /\ IF att[f] + 1 >= OsmAttempts
       THEN /\ st' = [st EXCEPT ![f] = "done"]
            /\ fut' = [fut EXCEPT ![f] = Value(NoCoord)]
       ELSE /\ st' = [st EXCEPT ![f] = "osm"]
            /\ fut' = fut

\* Faulty variant: no `if loc` guard, loc.latitude of None raises.
OsmOutcomeNoGuard(r) ==
    CASE r.kind = "match" -> "return"
      [] r.kind = "transient" -> "sleep"
      [] OTHER -> "raise"

\* What geocode_osm does with a response: "return", "again" (the loop goes
\* on), "sleep" or "raise".
OsmOutcome(r) ==
    CASE r.kind = "match" -> "return"
      [] r.kind = "nomatch" -> "again"
      [] r.kind = "transient" -> "sleep"
      [] OTHER -> "raise"

\* One iteration of geocode_osm up to its return, its sleep or its end.
OsmCall(f, r) ==
    /\ st[f] = "osm"
    /\ Record(f, r)
    /\ CASE OsmOutcome(r) = "return" ->
              /\ st' = [st EXCEPT ![f] = "done"]
              /\ fut' = [fut EXCEPT ![f] = Value(<<r.lat, r.lng>>)]
              /\ att' = att
         [] OsmOutcome(r) = "again" -> OsmNext(f)
         [] OsmOutcome(r) = "sleep" ->
              /\ st' = [st EXCEPT ![f] = "sleep"]
              /\ UNCHANGED <<fut, att>>
         [] OTHER ->
              /\ st' = [st EXCEPT ![f] = "done"]
              /\ fut' = [fut EXCEPT ![f] = Raised]
              /\ att' = att
    /\ UNCHANGED <<names, workers, bpc, coords, futures, collected, writes>>

\* time.sleep(1) is over.
SleepDone(f) ==
    /\ st[f] = "sleep"
    /\ OsmNext(f)
    /\ UNCHANGED <<names, workers, bpc, coords, futures, collected,
                   calls, onlyNF, writes, last>>

\* ---------------------------------------------------------------- collect

\* Faulty variant: a finished future is yielded again.
CanYieldAgain(f) == st[f] = "done"

\* Faulty variant: the futures are read without waiting for them to finish.
CanYieldEarly(f) == st[f] # "new" /\ f \notin collected

\* as_completed(futures) yields a future that is done and not yet yielded.
CanYield(f) == st[f] = "done" /\ f \notin collected

\* Faulty variant: results are stored in completion order.
SlotByCompletion(f) == Cardinality(collected) + 1

\* idx = futures[fut]
SlotOf(f) == futures[f].idx

\* Faulty variant: except Exception: pass
ResultOrUnset(o) == IF o.state = "value" THEN o.val ELSE Unset

\* try: fut.result()  except Exception: (None, None)
ResultOrNone(o) == IF o.state = "value" THEN o.val ELSE NoCoord

\* One iteration of `for fut in as_completed(futures)`.
Collect(f) ==
    /\ bpc = "collect"
    /\ CanYield(f)
    /\ collected' = collected \cup {f}
    /\ coords' = [coords EXCEPT ![SlotOf(f)] = ResultOrNone(fut[f])]
    /\ writes' = [writes EXCEPT ![SlotOf(f)] = @ + 1]
    /\ UNCHANGED <<names, workers, bpc, futures, st, att, fut,
                   calls, onlyNF, last>>

\* Faulty variant: the loop over as_completed stops after the first future.
AllYieldedFirst == collected # {} \/ Len(futures) = 0

\* as_completed is exhausted once every future has been yielded.
AllYielded == collected = 1..Len(futures)

\* return coords
Return ==
    /\ bpc = "collect"
    /\ AllYielded
    /\ bpc' = "returned"
    /\ UNCHANGED <<names, workers, coords, futures, st, att, fut, collected,
                   calls, onlyNF, writes, last>>

Next ==
    \/ Enter /\ UNCHANGED splitVars
    \/ Submit /\ UNCHANGED splitVars
    \/ \E f \in 1..N : Start(f) /\ UNCHANGED splitVars
    \/ \E f \in 1..N : \E r \in CensusResponses :
         CensusCall(f, r) /\ UNCHANGED splitVars
    \/ \E f \in 1..N : \E r \in OsmResponses :
         OsmCall(f, r) /\ UNCHANGED splitVars
    \/ \E f \in 1..N : SleepDone(f) /\ UNCHANGED splitVars
    \/ \E f \in 1..N : Collect(f) /\ UNCHANGED splitVars
    \/ Return /\ UNCHANGED splitVars

Spec == Init /\ [][Next]_vars

\* ------------------------------------------------- split_names, step by step

\* A call of split_names on a line, nothing else going on.
SplitInit ==
    /\ text \in ScanTexts
    /\ spc = "loop"
    /\ pos = 0
    /\ scan = ScanInit
    /\ out = <<>>
    /\ names = <<>>
    /\ workers = 0
    /\ bpc = "start"
    /\ coords = <<>>
    /\ futures = <<>>
    /\ st = <<>>
    /\ att = <<>>
    /\ fut = <<>>
    /\ collected = {}
    /\ calls = <<>>
    /\ onlyNF = <<>>
    /\ writes = <<>>
    /\ last = <<>>

\* for ch in text: one character.
ScanChar ==
    /\ spc = "loop"
    /\ pos < Len(text)
    /\ pos' = pos + 1
    /\ scan' = ScanStep(scan, text[pos + 1])
    /\ UNCHANGED <<spc, text, out>>
    /\ UNCHANGED batchVars

\* The loop is over: the last name, and return names.
ScanEnd ==
    /\ spc = "loop"
    /\ pos = Len(text)
    /\ out' = ScanFinish(scan)
    /\ spc' = "returned"
    /\ UNCHANGED <<text, pos, scan>>
    /\ UNCHANGED batchVars

SplitNext == ScanChar \/ ScanEnd

SplitSpec == SplitInit /\ [][SplitNext]_vars

\* The pool's threads and the thread of batch_geocode all keep running: a step
\* that can be taken is taken.
FairSpec == Spec /\ WF_vars(Next)

\* ------------------------------------------------------------------ claims

\* The future submitted for index i.
FutureOf(i) == CHOOSE f \in 1..Len(futures) : futures[f].idx = i

Submitted == 1..Len(futures)

\* How often backend b was called for future f.
CallCount(f, b) == Cardinality({k \in 1..Len(calls[f]) : calls[f][k] = b})

\* What a finished task handed to its future: its return value, or absence
\* when it raised.
OutcomeIs(f, c) ==
    \/ fut[f].state = "value" /\ c = fut[f].val
    \/ fut[f].state = "exc" /\ c = NoCoord

\* C1: batch_geocode returns a list of exactly len(names) entries, and every
\* entry that has been written, at any moment and whatever the order in which
\* the tasks finish, is the outcome of the one task that was submitted for
\* that index with the name at that index.
C1_OrderPreserved ==
    /\ \A i \in 1..Len(coords) :
         coords[i] # Unset =>
           \E f \in Submitted :
             /\ futures[f].idx = i
             /\ futures[f].name = names[i]
             /\ last[f].query = Address(names[i])
             /\ st[f] = "done"
             /\ OutcomeIs(f, coords[i])
    /\ bpc = "returned" =>
         /\ Len(coords) = Len(names)
         /\ \A i \in 1..Len(names) : coords[i] # Unset

\* C1 witness: the second task finished and was stored while the first was
\* still running, and the batch went on to return two different entries.
C1_Witness ==
    /\ bpc = "collect"
    /\ Len(names) = 2
    /\ names[1] # names[2]
    /\ collected = {2}
    /\ st[1] \in {"census", "osm", "sleep"}
    /\ coords[2] = <<OsmLat, OsmLng>>

\* C2: no index is submitted twice and no slot is written twice, at any
\* moment; once submission is over every index has exactly one future, and
\* when batch_geocode returns every slot has been written exactly once.
C2_ExactlyOnce ==
    /\ \A i \in 1..Len(names) :
         /\ writes[i] <= 1
         /\ Cardinality({f \in Submitted : futures[f].idx = i}) <= 1
    /\ bpc \in {"collect", "returned"} =>
         \A i \in 1..Len(names) :
           Cardinality({f \in Submitted : futures[f].idx = i}) = 1
    /\ bpc = "returned" =>
         \A i \in 1..Len(names) : writes[i] = 1 /\ FutureOf(i) \in collected

\* C2 witness: a batch of two ran on a pool of more than one thread and
\* returned.
C2_Witness ==
    /\ bpc = "returned"
    /\ Len(names) = 2
    /\ workers > 1
    /\ \A i \in 1..2 : writes[i] = 1

\* A query failed: every backend it asked had no match, or its task raised.
Failed(f) ==
    /\ st[f] = "done"
    /\ \/ fut[f].state = "exc"
       \/ onlyNF[f]

\* C3: batch_geocode raises only for a refused pool size, never because of a
\* query; a query that failed has the absent pair in its own slot once it is
\* stored, and the slot of every other query that got a coordinate holds
\* that coordinate.
C3_FailureIsolated ==
    /\ bpc = "raised" => workers <= 0 /\ Len(futures) = 0
    /\ \A f \in Submitted :
         Failed(f) /\ f \in collected =>
           /\ coords[futures[f].idx] = NoCoord
           /\ \A g \in collected \ {f} :
                fut[g].state = "value" => coords[futures[g].idx] = fut[g].val

\* C3 witness: the first task raised a non-transient Nominatim exception, the
\* second got a Census coordinate, and the batch returned both.
C3_Witness ==
    /\ bpc = "returned"
    /\ Len(names) = 2
    /\ fut[1].state = "exc"
    /\ last[1].resp.backend = "osm"
    /\ last[1].resp.kind = "permanent"
    /\ coords[1] = NoCoord
    /\ coords[2] = <<CensusLat, CensusLng>>

\* The retries geocode_osm's loop allows after its first attempt.
RetryLimit == OsmAttempts - 1

\* The task of f is past backend b: it called the next one or ended.
MovedPast(f, b) ==
    IF b = "census" THEN st[f] \in {"osm", "sleep", "done"} ELSE st[f] = "done"

\* C4: a backend whose last answer to a query was a transient failure is left
\* only after 1 + retry_limit calls to it, the Census backend included, and a
\* query a backend resolved has not asked a later backend.
C4_TransientRetried ==
    \A f \in Submitted :
      /\ \A b \in {"census", "osm"} :
           /\ last[f].resp.backend = b
           /\ last[f].resp.kind = "transient"
           /\ MovedPast(f, b)
           => CallCount(f, b) = RetryLimit + 1
      /\ st[f] = "done" /\ fut[f] = Value(<<CensusLat, CensusLng>>)
           => CallCount(f, "osm") = 0

\* C5: after a backend has answered a query with "no match", the next call
\* made for that query is not to that backend.
C5_NoCallAfterNotFound ==
    [][\A f \in 1..Len(names) :
         last[f].resp.kind = "nomatch" /\ calls'[f] # calls[f]
         => calls'[f][Len(calls'[f])] # last[f].resp.backend]_vars

\* C6: no backend is called for a blank or whitespace-only entry, and its
\* slot, once written, is the absent pair.
C6_BlankNotDispatched ==
    \A f \in Submitted :
      IsBlank(futures[f].name) =>
        /\ calls[f] = <<>>
        /\ coords[futures[f].idx] \in {Unset, NoCoord}

\* The Census answer carries both components.
FullCensusMatch(r) ==
    r.backend = "census" /\ r.kind = "match" /\ r.lat # None /\ r.lng # None

\* C7: a query whose Census answer carried a coordinate is over with exactly
\* that coordinate, Nominatim was not called for it, and its slot, once
\* written, holds that coordinate.
C7_PrimaryWins ==
    \A f \in Submitted :
      /\ FullCensusMatch(last[f].resp) =>
           /\ st[f] = "done"
           /\ fut[f] = Value(<<last[f].resp.lat, last[f].resp.lng>>)
           /\ calls[f] = <<"census">>
           /\ f \in collected =>
                coords[futures[f].idx] = <<last[f].resp.lat, last[f].resp.lng>>
      /\ Len(calls[f]) > 0 /\ calls[f][1] = "census" /\ CallCount(f, "osm") > 0
           => ~FullCensusMatch(last[f].resp) /\ fut[f] # Value(<<CensusLat, CensusLng>>)

\* C7 witness: both queries of a batch got the fixed Census coordinate and the
\* batch returned it twice.
C7_Witness ==
    /\ bpc = "returned"
    /\ Len(names) = 2
    /\ \A f \in 1..2 :
         /\ FullCensusMatch(last[f].resp)
         /\ coords[f] = <<CensusLat, CensusLng>>
         /\ calls[f] = <<"census">>

\* The calls are in chain order: Census first, Nominatim after it, and no
\* Census call after a Nominatim call.
ChainOrder(cs) ==
    /\ Len(cs) >= 2
    /\ cs[1] = "census"
    /\ cs[Len(cs)] = "osm"
    /\ \A j, k \in 1..Len(cs) : j < k /\ cs[j] = "osm" => cs[k] = "osm"
    /\ Cardinality({k \in 1..Len(cs) : cs[k] = "census"}) = 1

\* C8: a query whose every backend answer was "no match" asks Census before
\* Nominatim at every moment, and when it is over it returned absence after
\* asking both in chain order; its slot, once written, is the absent pair.
C8_NotFoundExhausts ==
    \A f \in Submitted :
      onlyNF[f] =>
        /\ \A j, k \in 1..Len(calls[f]) :
             j < k /\ calls[f][j] = "osm" => calls[f][k] = "osm"
        /\ st[f] = "done" =>
             /\ fut[f] = Value(NoCoord)
             /\ ChainOrder(calls[f])
             /\ f \in collected => coords[futures[f].idx] = NoCoord

\* C8 witness: every answer to both queries of a batch was "no match" and the
\* batch returned two absent pairs.
C8_Witness ==
    /\ bpc = "returned"
    /\ Len(names) = 2
    /\ \A f \in 1..2 : onlyNF[f] /\ coords[f] = NoCoord /\ CallCount(f, "osm") > 0

\* C9: right after a permanent failure of the Census backend the query has
\* called it once and stands at Nominatim's first attempt; no query calls
\* Census more than once, and a query that is over without a Census
\* coordinate has asked Nominatim.
C9_PermanentFallsThrough ==
    \A f \in Submitted :
      /\ last[f].resp.backend = "census" /\ last[f].resp.kind = "permanent" =>
           /\ calls[f] = <<"census">>
           /\ st[f] = "osm"
           /\ att[f] = 0
      /\ CallCount(f, "census") <= 1
      /\ st[f] = "done" /\ ~FullCensusMatch(last[f].resp) =>
           /\ CallCount(f, "census") = 1
           /\ CallCount(f, "osm") >= 1

\* C9 witness: Census failed permanently for the first query, which is about
\* to ask Nominatim, while the second query is already stored.
C9_Witness ==
    /\ Len(names) = 2
    /\ last[1].resp.backend = "census"
    /\ last[1].resp.kind = "permanent"
    /\ st[1] = "osm"
    /\ 2 \in collected

\* The result a query's last backend answer stands for.
ResultOf(r) ==
    IF r.kind = "match" /\ r.lat # None /\ r.lng # None
    THEN <<r.lat, r.lng>> ELSE NoCoord

\* C10: the list batch_geocode returns is a function of the backend answers
\* alone: entry i is the result of the last answer to the query of index i,
\* for every pool size and every schedule.
C10_SameForAnyPool ==
    bpc = "returned" =>
      coords = [i \in 1..Len(names) |-> ResultOf(last[FutureOf(i)].resp)]

\* C10 witness: the large pool returned a batch of two whose entries differ,
\* the first absent and the second a Nominatim coordinate.
C10_Witness ==
    /\ bpc = "returned"
    /\ workers = ManyWorkers
    /\ Len(names) = 2
    /\ coords[1] = NoCoord
    /\ coords[2] = <<OsmLat, OsmLng>>

\* C11: at every moment the number of queries whose task has started and is
\* not over, hence the number of backend calls in flight, is at most workers.
C11_PoolBound ==
    /\ Cardinality(Running) <= Max(workers, 0)
    /\ \A f \in 1..Len(names) : st[f] \in {"census", "osm", "sleep"} => workers >= 1

\* C11 witness: a pool of one thread is busy with the first query while the
\* second waits in the queue.
C11_Witness ==
    /\ workers = 1
    /\ Len(names) = 2
    /\ st[1] = "osm"
    /\ st[2] = "queued"

\* A pair with both components present.
IsCoordinate(c) == Len(c) = 2 /\ c[1] # None /\ c[2] # None

\* C12: a query that is over is resolved (a coordinate) or exhausted (absence,
\* returned or raised); its slot is written only once it is over, with a
\* coordinate or the absent pair; and from then on no backend is called for
\* it, its outcome does not change and its slot is not written again.
C12_TerminalStable ==
    /\ [](\A f \in Submitted :
            /\ st[f] = "done" =>
                 \/ fut[f] = Raised
                 \/ fut[f].state = "value"
                    /\ (IsCoordinate(fut[f].val) \/ fut[f].val = NoCoord)
            /\ writes[futures[f].idx] >= 1 =>
                 /\ st[f] = "done"
                 /\ \/ IsCoordinate(coords[futures[f].idx])
                    \/ coords[futures[f].idx] = NoCoord)
    /\ [][\A f \in Submitted :
            /\ st[f] = "done" =>
                 /\ st'[f] = "done"
                 /\ calls'[f] = calls[f]
                 /\ last'[f] = last[f]
                 /\ fut'[f] = fut[f]
            /\ writes[futures[f].idx] >= 1 =>
                 /\ coords'[futures[f].idx] = coords[futures[f].idx]
                 /\ writes'[futures[f].idx] = writes[futures[f].idx]]_vars

\* C12 witness: the batch returned with the first query resolved by Census and
\* the second exhausted after Nominatim's last attempt.
C12_Witness ==
    /\ bpc = "returned"
    /\ Len(names) = 2
    /\ coords[1] = <<CensusLat, CensusLng>>
    /\ fut[2] = Value(NoCoord)
    /\ att[2] = OsmAttempts
    /\ coords[2] = NoCoord

\* C13: with workers <= 0 batch_geocode is at its entry or has raised, and
\* nothing was submitted, started, asked of a backend or stored.
C13_BadPoolRejected ==
    workers <= 0 =>
      /\ bpc \in {"start", "raised"}
      /\ futures = <<>>
      /\ collected = {}
      /\ \A f \in 1..Len(names) :
           st[f] = "new" /\ calls[f] = <<>> /\ fut[f] = Pending /\ writes[f] = 0

\* C13 witness: batch_geocode raised for a batch of two and a negative pool
\* size.
C13_Witness ==
    /\ bpc = "raised"
    /\ workers < 0
    /\ Len(names) = 2
    /\ futures = <<>>

\* C14: for every query at most one Census call and at most OsmAttempts (3)
\* Nominatim calls are made, whatever the backends answer; a batch that has
\* returned has every query over; and with a pool of at least one thread,
\* under fair scheduling, batch_geocode eventually returns.
C14_BoundedAndReturns ==
    /\ [](\A f \in 1..Len(names) :
            /\ CallCount(f, "census") <= 1
            /\ CallCount(f, "osm") <= OsmAttempts
            /\ att[f] <= OsmAttempts
            /\ bpc = "returned" => st[f] = "done")
    /\ (workers >= 1 => <>(bpc = "returned"))

\* C14 witness: a persistent outage, every call of both queries failed
\* transiently, one Census call and three Nominatim calls each, and the batch
\* returned.
C14_Witness ==
    /\ bpc = "returned"
    /\ Len(names) = 2
    /\ \A f \in 1..2 :
         /\ calls[f] = <<"census", "osm", "osm", "osm">>
         /\ last[f].resp.kind = "transient"
         /\ coords[f] = NoCoord

\* C15: a query is in a backoff wait only right after a transient failure of
\* the backend it is asking, and only while that backend has an attempt left
\* for it, so that the wait is followed by another attempt on that backend.
C15_BackoffOnlyBeforeRetry ==
    \A f \in 1..Len(names) :
      st[f] = "sleep" =>
        /\ last[f].resp.backend = "osm"
        /\ last[f].resp.kind = "transient"
        /\ calls[f][Len(calls[f])] = "osm"
        /\ att[f] + 1 < OsmAttempts

\* C16: when batch_geocode has returned, no slot holds the placeholder: every
\* entry is a pair, a coordinate or (None, None).
C16_NoPlaceholderLeft ==
    bpc = "returned" =>
      \A i \in 1..Len(coords) :
        /\ coords[i] # Unset
        /\ Len(coords[i]) = 2
        /\ IsCoordinate(coords[i]) \/ coords[i] = NoCoord

\* C16 witness: the batch returned a Nominatim coordinate for the first query
\* and the absent pair for the second, whose task raised.
C16_Witness ==
    /\ bpc = "returned"
    /\ Len(coords) = 2
    /\ coords[1] = <<OsmLat, OsmLng>>
    /\ fut[2] = Raised
    /\ coords[2] = NoCoord

\* The Census answer is a match that carries exactly one of the two components.
PartialCensus(r) ==
    r.backend = "census" /\ r.kind = "match" /\ ((r.lat = None) # (r.lng = None))

\* C17: right after a Census answer with only one component the query is not
\* over but stands at Nominatim's first attempt; no task ever returns a pair
\* with exactly one component None; and a query that is over without having
\* asked Nominatim had a Census answer with both components.
C17_PartialIsNoMatch ==
    \A f \in Submitted :
      /\ PartialCensus(last[f].resp) =>
           /\ st[f] = "osm"
           /\ att[f] = 0
           /\ fut[f] = Pending
           /\ calls[f] = <<"census">>
      /\ fut[f].state = "value" => ((fut[f].val[1] = None) = (fut[f].val[2] = None))
      /\ st[f] = "done" /\ CallCount(f, "osm") = 0 => FullCensusMatch(last[f].resp)

\* C17 witness: Census answered the only query with a latitude and no
\* longitude, and the query is about to ask Nominatim.
C17_Witness ==
    /\ Len(names) = 1
    /\ last[1].resp.backend = "census"
    /\ last[1].resp.lat = CensusLat
    /\ last[1].resp.lng = None
    /\ st[1] = "osm"

\* The name has no blank at either end.
Trimmed(n) == n = <<>> \/ (~IsSpace(n[1]) /\ ~IsSpace(n[Len(n)]))

\* C18: during the scan of split_names the depth is never negative; a
\* character ends the current name (the stripped buffer is appended and the
\* buffer emptied) exactly when it is a comma met at depth 0, and is added
\* to the buffer otherwise; every name collected or returned has no blank at
\* either end, and the stepwise result is split_names of the line.
C18_SplitScan ==
    /\ [](/\ scan.depth >= 0
          /\ \A k \in 1..Len(scan.names) : Trimmed(scan.names[k])
          /\ spc = "returned" =>
               /\ \A k \in 1..Len(out) : Trimmed(out[k])
               /\ out = split_names(text))
    /\ [][pos' = pos + 1 =>
            LET ch == text[pos + 1]
                ends == Len(scan'.names) = Len(scan.names) + 1
            IN  /\ ends <=> (ch = "," /\ scan'.depth = 0)
                /\ ends => /\ scan'.names = Append(scan.names, Strip(scan.buf))
                           /\ scan'.buf = <<>>
                /\ ~ends => /\ scan'.names = scan.names
                            /\ scan'.buf = Append(scan.buf, ch)
                /\ ch = ")" /\ scan.depth = 0 => scan'.depth = 0]_vars

\* C18 witness: the line "),  a" was split: the unmatched ")" left the depth at
\* 0, so the comma ended the name ")", and the last name lost its blank.
C18_Witness ==
    /\ spc = "returned"
    /\ text = <<")", ",", " ", "a">>
    /\ scan.depth = 0
    /\ out = << <<")">>, <<"a">> >>

====
